---------------------------- MODULE Spec2Model ----------------------------
(***************************************************************************)
(* The image feed of the Space Explorer frontend: ImageDataProvider /      *)
(* useImageData (fetchPage, loadMore, refresh), ImageSearchProvider        *)
(* (searchTerm, activeSearchTerm, performSearch) and the Grid component    *)
(* that binds them (mount effect, refresh effect, onRender -> loadMore).   *)
(*                                                                         *)
(* The UI runs on one event loop: every handler runs to its first await    *)
(* without interruption, and every response is handled in one piece.  One  *)
(* action is one such piece.  Requests to GET /api/sources stay in         *)
(* `inflight` until the server answers; answers arrive in any order.       *)
(***************************************************************************)
EXTENDS Integers, Sequences, FiniteSets, Bags, TLC

(* ------------------------------ bounds -------------------------------- *)

\* requests to /api/sources sent in one behaviour of SpecApi
MaxRequests == 2
\* requests to /api/sources sent in one behaviour of Spec
MaxAppRequests == 4
\* requests to /api/search sent in one behaviour of SpecHistory
MaxHistoryRequests == 4
\* requests sent through the API module in one behaviour of SpecAuth
MaxAuthRequests == 3

(* --------------------------- program constants ------------------------ *)

PAGE_SIZE == 60
\* SearchBox: the page size of the search history
ITEMS_PER_PAGE == 30

(* ------------------------------ values -------------------------------- *)

\* ids are strings in the program; a string is modelled by its parts
SrvId(k) == <<"srv", k, 0>>
\* `tmp-${offset}-${i}`
TmpId(offset, i) == <<"tmp", offset, i>>
\* a record of the response that has no id field
NoId == <<"none", 0, 0>>
\* a record of the response that has no image_url field
Missing == "<missing>"

NoError == "<null>"
\* the viewer's imageData when no record is selected (null)
NoImageData == [id |-> NoId, image_url |-> Missing]
FetchErrorMessage == "Failed to fetch space images"

\* search terms are strings: sequences of characters
SP == " "
Terms == { <<>>, <<SP>>, <<SP, "n">> }
\* an omitted searchQuery argument
Undefined == <<"<undefined>">>
\* params without a q field
NoQ == <<"<no q>">>

RECURSIVE TrimStart(_)
TrimStart(s) ==
    IF s # <<>> /\ Head(s) = SP THEN TrimStart(Tail(s)) ELSE s

RECURSIVE TrimEnd(_)
TrimEnd(s) ==
    IF s # <<>> /\ s[Len(s)] = SP THEN TrimEnd(SubSeq(s, 1, Len(s) - 1)) ELSE s

\* String.prototype.trim
Trim(s) == TrimEnd(TrimStart(s))

\* localStorage.getItem('authToken') when the key is absent
NoToken == "<null>"
\* no Authorization header
NoHeader == <<>>
\* `Bearer ${token}`
Bearer(token) == <<"Bearer ", token>>
\* the truth value of a token, as in `if (token)` and `!!token`
Truthy(token) == token # NoToken /\ token # ""

HomeRoute == "/"
PlatformRoute == "/platform"
LoginRoute == "/auth?type=login"
SignupRoute == "/auth?type=signup"
Routes == {HomeRoute, PlatformRoute, LoginRoute, SignupRoute}
\* the path of a route, which chooses the page
Path(r) == IF r \in {LoginRoute, SignupRoute} THEN "/auth" ELSE r

\* an entry of the search history
HistoryEntry(k) == [id |-> <<"h", k>>, search_term |-> "t"]

\* response.data.data of GET /api/search/history: no entry, one, two, and two
\* that overlap the others
HistoryData ==
    { <<>>,
      <<HistoryEntry(1)>>,
      <<HistoryEntry(1), HistoryEntry(2)>>,
      <<HistoryEntry(2), HistoryEntry(3)>> }

\* response.data.total
HistoryTotals == {0, 2, 3}

\* response.data of GET /api/search/history
HistoryResponses ==
    { [success |-> FALSE, data |-> <<>>, total |-> 0] } \cup
    { [success |-> TRUE, data |-> d, total |-> t] :
         d \in HistoryData, t \in HistoryTotals }

\* a server that keeps a fixed history, one entry more than a page, each
\* entry at one position
ServerTotal == ITEMS_PER_PAGE + 1

\* the entries of that history at positions currentOffset + 1 ..
\* currentOffset + limit
ServerPage(currentOffset, limit) ==
    [k \in 1..(IF ServerTotal - currentOffset < limit
                 THEN (IF ServerTotal > currentOffset
                         THEN ServerTotal - currentOffset ELSE 0)
                 ELSE limit)
        |-> HistoryEntry(currentOffset + k)]

\* the response of that server to a request r of the history
ServerResponse(r) ==
    [success |-> TRUE, data |-> ServerPage(r.offset, r.limit),
     total |-> ServerTotal]

\* a response without success
NoSuccess == [success |-> FALSE, data |-> <<>>, total |-> 0]

\* response.data.total of a history longer than one page
PagingTotals == {0, 2, 31, 32}

\* responses with a short page and a total on either side of what is counted
\* as loaded, for a fresh fetch and for a load-more at offset 30
PagingResponses ==
    { NoSuccess } \cup
    { [success |-> TRUE, data |-> d, total |-> t] :
         d \in HistoryData, t \in PagingTotals }

(* ----------------------- the server's responses ----------------------- *)

NullEntry == [null |-> TRUE, id |-> NoId, image_url |-> Missing]
Entry(id, url) == [null |-> FALSE, id |-> id, image_url |-> url]

\* the records short pages are made of: two server ids and a record that
\* has neither id nor image_url
Entries ==
    {Entry(SrvId(0), "u"), Entry(SrvId(1), "u"), Entry(NoId, Missing)}

\* pages with null entries, and a page that repeats an id with other content
OddPages ==
    { <<NullEntry>>,
      <<NullEntry, Entry(NoId, Missing)>>,
      <<Entry(SrvId(0), Missing), Entry(SrvId(0), "u")>> }

\* pages shorter than a full page: none, one or two records, and the odd ones
ShortPages == UNION { [1..n -> Entries] : n \in 0..2 } \cup OddPages

\* a page of PAGE_SIZE entries that starts as s and repeats its last entry
Pad(s) == [i \in 1..PAGE_SIZE |-> IF i <= Len(s) THEN s[i] ELSE s[Len(s)]]

\* a page of PAGE_SIZE records with the ids start .. start + PAGE_SIZE - 1
RangePage(start) == [i \in 1..PAGE_SIZE |-> Entry(SrvId(start + i - 1), "u")]

RangeStarts == {0, 40}

\* full pages: one record repeated, a null entry followed by one record
\* repeated (PAGE_SIZE - 1 records), and runs of PAGE_SIZE distinct ids
FullPages ==
    { Pad(<<Entry(SrvId(0), "u")>>) } \cup
    { Pad(<<NullEntry, Entry(SrvId(1), "u")>>) } \cup
    { RangePage(k) : k \in RangeStarts }

\* response.data of GET /api/sources
Pages == ShortPages \cup FullPages

\* the responses the application model draws from: an empty page, two short
\* pages and a run of PAGE_SIZE records, which share ids
AppPages ==
    { <<>>,
      <<Entry(SrvId(0), "u")>>,
      <<Entry(SrvId(1), "u"), Entry(SrvId(0), "u")>>,
      RangePage(0) }

(* --------------------------- fetchPage, pure -------------------------- *)

\* params.q = searchQuery, untrimmed
Params_NoTrim(offset, searchQuery) ==
    [offset |-> offset,
     limit  |-> PAGE_SIZE,
     q      |-> IF searchQuery # Undefined /\ searchQuery # <<>>
                   /\ Trim(searchQuery) # <<>>
                THEN searchQuery ELSE NoQ]

\* the params object of the request
Params(offset, searchQuery) ==
    [offset |-> offset,
     limit  |-> PAGE_SIZE,
     q      |-> IF searchQuery # Undefined /\ searchQuery # <<>>
                   /\ Trim(searchQuery) # <<>>
                THEN Trim(searchQuery) ELSE NoQ]

\* .filter(Boolean)
RECURSIVE FilterBoolean(_)
FilterBoolean(page) ==
    IF page = <<>> THEN <<>>
    ELSE IF Head(page).null THEN FilterBoolean(Tail(page))
         ELSE <<Head(page)>> \o FilterBoolean(Tail(page))

\* .map((it, i) => ({...it, id: it?.id ?? `tmp-${offset}-${i}`,
\*                   image_url: it.image_url || ''}))   (i counts from 0)
MapItem(it, i, offset) ==
    [id        |-> IF it.id = NoId THEN TmpId(offset, i) ELSE it.id,
     image_url |-> IF it.image_url = Missing THEN "" ELSE it.image_url]

\* the map applied before the filter: i counts the null entries too
IncomingItems_MapFirst(page, offset) ==
    LET mapped == [i \in 1..Len(page) |->
                     [null |-> page[i].null,
                      item |-> MapItem(page[i], i - 1, offset)]]
        kept == SelectSeq(mapped, LAMBDA e : ~e.null)
    IN  [i \in 1..Len(kept) |-> kept[i].item]

IncomingItems(page, offset) ==
    LET kept == FilterBoolean(page)
    IN  [i \in 1..Len(kept) |-> MapItem(kept[i], i - 1, offset)]

\* the filter without loadedIdsRef.current.add(item.id)
UniqueItems_NoAdd(incoming, loaded) ==
    SelectSeq(incoming, LAMBDA item : item.id \notin loaded)

\* incomingItems.filter(item => { isNew = !loadedIds.has(item.id); ... })
RECURSIVE UniqueItems(_, _)
UniqueItems(incoming, loaded) ==
    IF incoming = <<>> THEN <<>>
    ELSE IF Head(incoming).id \in loaded
         THEN UniqueItems(Tail(incoming), loaded)
         ELSE <<Head(incoming)>>
              \o UniqueItems(Tail(incoming), loaded \cup {Head(incoming).id})

IdsOf(items) == { items[i].id : i \in 1..Len(items) }

\* fetchPage without `if (offset === 0) loadedIdsRef.current = new Set()`
BaseIds_NoReset(offset, loaded) == loaded

\* the dedup set the filter starts from
BaseIds(offset, loaded) == IF offset = 0 THEN {} ELSE loaded

\* setImages(uniqueItems) at every offset
NextImages_Replace(offset, prev, uniqueItems) == uniqueItems

\* setImages(prev => [...prev, ...uniqueItems]) at every offset
NextImages_Append(offset, prev, uniqueItems) == prev \o uniqueItems

\* setImages(prev => offset === 0 ? uniqueItems : [...uniqueItems, ...prev])
NextImages_Prepend(offset, prev, uniqueItems) ==
    IF offset = 0 THEN uniqueItems ELSE uniqueItems \o prev

\* setImages(prev => offset === 0 ? uniqueItems : [...prev, ...uniqueItems])
NextImages(offset, prev, uniqueItems) ==
    IF offset = 0 THEN uniqueItems ELSE prev \o uniqueItems

\* setHasMore(incomingItems.length > 0)
NextHasMore_AnyRecords(incoming) == Len(incoming) > 0

\* setHasMore(incomingItems.length === PAGE_SIZE)
NextHasMore(incoming) == Len(incoming) = PAGE_SIZE

(* ------------------------------- state -------------------------------- *)

VARIABLES
    images,            \* ImageDataProvider: useState<ImageData[]>([])
    loading,           \* useState(true)
    error,             \* useState<string | null>(null)
    hasMore,           \* useState(true)
    isLoadingMore,     \* useState(false)
    isLoadingRef,      \* useRef(false)
    loadedIdsRef,      \* useRef(new Set())
    searchTerm,        \* ImageSearchProvider: the text of the input
    activeSearchTerm,  \* the committed term
    mounted,           \* whether the platform page (SearchBox, Grid) is mounted
    inflight,          \* bag of the requests to /api/sources not yet answered
    sent,              \* number of requests sent to /api/sources so far
    last,              \* history: the handler that ran last, and what it did
    failQuiet,         \* history: the last rejection left no request in
                       \* flight, and no fetch has been rejected since
    exhausted,         \* history: a fetch has resolved with fewer than
                       \* PAGE_SIZE records since refresh was last called
    lmPending,         \* history: the last loadMore that sent a request did so
                       \* after the last completion of any fetch
    refreshedFor,      \* history: the argument of the last refresh the Grid's
                       \* effect called
    imageData,         \* ImageViewProvider: useState<ImageViewData | null>(null)
    showHistory,       \* SearchBox: useState(false)
    searchHistory,     \* useState<SearchHistoryEntry[]>([])
    isLoadingHistory,  \* useState(false)
    historyIsLoadingMore,  \* SearchBox's isLoadingMore: useState(false)
    historyOffset,     \* SearchBox's offset: useState(0)
    historyHasMore,    \* SearchBox's hasMore: useState(true)
    total,             \* useState(0)
    historyInflight,   \* bag of the requests to /api/search not yet answered
    historySent,       \* number of requests sent to /api/search so far
    authToken,         \* localStorage's 'authToken'
    defaultAuthorization,  \* api.defaults.headers.common['Authorization']
    route,             \* the router's location
    isValidating,      \* Platform: useState(true)
    isAuthenticated,   \* Platform: useState(false)
    authIsLoading,     \* Auth's isLoading: useState(false)
    wire,              \* the requests of SpecAuth not yet answered
    authSent,          \* number of requests SpecAuth has sent
    timers,            \* pending timers of Auth that navigate to the platform
    validReturned      \* history: validation returned valid to the mounted Platform

feedVars == <<images, loading, error, hasMore, isLoadingMore, isLoadingRef,
              loadedIdsRef>>
searchVars == <<searchTerm, activeSearchTerm>>
\* the state outside the feed and the search providers
viewVars == <<imageData>>
\* SearchBox's own state, but for showHistory
listVars == <<searchHistory, isLoadingHistory, historyIsLoadingMore,
              historyOffset, historyHasMore, total>>
historyVars == <<showHistory, listVars, historyInflight, historySent>>
\* the token, the router and the pages around the feed
authVars == <<authToken, defaultAuthorization, route, isValidating,
              isAuthenticated, authIsLoading, wire, authSent, timers,
              validReturned>>
restVars == <<viewVars, historyVars, authVars>>
vars == <<images, loading, error, hasMore, isLoadingMore, isLoadingRef,
          loadedIdsRef, searchTerm, activeSearchTerm, mounted, inflight, sent,
          last, failQuiet, exhausted, lmPending, refreshedFor, imageData,
          showHistory, searchHistory, isLoadingHistory, historyIsLoadingMore,
          historyOffset, historyHasMore, total, historyInflight, historySent,
          authToken, defaultAuthorization, route, isValidating,
          isAuthenticated, authIsLoading, wire, authSent, timers,
          validReturned>>

\* sourcesAPI.getSources(params), tagged with the function that called fetchPage
Request(offset, searchQuery, origin) ==
    [origin |-> origin, params |-> Params(offset, searchQuery)]

Send(bag, r) == bag (+) SetToBag({r})
Answered(bag, r) == bag (-) SetToBag({r})
Pending == BagToSet(inflight)

\* what `last` records: the handler; for a response the caller and the offset
\* of its request, the number of records that came in and the number
\* admitted to images; for a call the offset asked for and the number of
\* requests sent
\* requests sent; `before` is the length of images when the handler began
Did(op, origin, offset, issued, raw, added) ==
    [op |-> op, origin |-> origin, offset |-> offset, issued |-> issued,
     raw |-> raw, added |-> added, before |-> Len(images), stop |-> 0]

\* what `last` records of a call of loadMore: its stopIndex as well
DidLoadMore(stopIndex, offset, issued) ==
    [Did("loadMore", "-", offset, issued, 0, 0) EXCEPT !.stop = stopIndex]

\* the state of the pages when the site has loaded
InitPage ==
    /\ images = <<>>
    /\ loading = TRUE
    /\ error = NoError
    /\ hasMore = TRUE
    /\ isLoadingMore = FALSE
    /\ isLoadingRef = FALSE
    /\ loadedIdsRef = {}
    /\ searchTerm = <<>>
    /\ activeSearchTerm = <<>>
    /\ mounted = FALSE
    /\ inflight = EmptyBag
    /\ sent = 0
    /\ last = Did("init", "-", 0, 0, 0, 0)
    /\ failQuiet = FALSE
    /\ exhausted = FALSE
    /\ lmPending = FALSE
    /\ refreshedFor = Undefined
    /\ imageData = NoImageData
    /\ showHistory = FALSE
    /\ searchHistory = <<>>
    /\ isLoadingHistory = FALSE
    /\ historyIsLoadingMore = FALSE
    /\ historyOffset = 0
    /\ historyHasMore = TRUE
    /\ total = 0
    /\ historyInflight = EmptyBag
    /\ historySent = 0
    /\ defaultAuthorization = NoHeader
    /\ route = HomeRoute
    /\ isValidating = TRUE
    /\ isAuthenticated = FALSE
    /\ authIsLoading = FALSE
    /\ wire = {}
    /\ authSent = 0
    /\ timers = 0
    /\ validReturned = FALSE

\* the site loaded with nothing in localStorage
Init == InitPage /\ authToken = NoToken

\* the site loaded with nothing in localStorage, or with the token an
\* earlier visit has left there
InitReturning == InitPage /\ authToken \in {NoToken, "t1"}

(* ------------------------- useImageData: refresh ---------------------- *)

\* refresh without its setIsLoadingMore(false)
Refresh_KeepsLoadingMore(searchQuery, bag) ==
    /\ loading' = TRUE
    /\ error' = NoError
    /\ images' = <<>>
    /\ hasMore' = TRUE
    /\ isLoadingMore' = isLoadingMore
    /\ loadedIdsRef' = {}
    /\ isLoadingRef' = TRUE
    /\ inflight' = Send(bag, Request(0, searchQuery, "refresh"))
    /\ exhausted' = FALSE

\* refresh without `loadedIdsRef.current = new Set()`
Refresh_KeepsIds(searchQuery, bag) ==
    /\ loading' = TRUE
    /\ error' = NoError
    /\ images' = <<>>
    /\ hasMore' = TRUE
    /\ isLoadingMore' = FALSE
    /\ loadedIdsRef' = loadedIdsRef
    /\ isLoadingRef' = TRUE
    /\ inflight' = Send(bag, Request(0, searchQuery, "refresh"))
    /\ exhausted' = FALSE

\* refresh(searchQuery), run on the bag of requests `bag`:
\* setLoading(true); setError(null); setImages([]); setHasMore(true);
\* setIsLoadingMore(false); loadedIdsRef.current = new Set();
\* fetchPage(0, searchQuery) up to its await
Refresh(searchQuery, bag) ==
    /\ loading' = TRUE
    /\ error' = NoError
    /\ images' = <<>>
    /\ hasMore' = TRUE
    /\ isLoadingMore' = FALSE
    /\ loadedIdsRef' = {}
    /\ isLoadingRef' = TRUE
    /\ inflight' = Send(bag, Request(0, searchQuery, "refresh"))
    /\ exhausted' = FALSE

(* ------------------------- useImageData: loadMore --------------------- *)

\* loadMore without the isLoadingRef.current test
LoadMoreReturnsEarly_NoRef(stopIndex, items) ==
    \/ ~hasMore
    \/ stopIndex < Len(items) - 1

\* loadMore that tests `stopIndex < items.length` (one render row early)
LoadMoreReturnsEarly_Length(stopIndex, items) ==
    \/ ~hasMore
    \/ isLoadingRef
    \/ stopIndex < Len(items)

\* the two early returns of loadMore
LoadMoreReturnsEarly(stopIndex, items) ==
    \/ ~hasMore
    \/ isLoadingRef
    \/ stopIndex < Len(items) - 1

\* loadMore(startIndex, stopIndex, items, searchQuery)
LoadMore(stopIndex, items, searchQuery) ==
    IF LoadMoreReturnsEarly(stopIndex, items)
    THEN /\ last' = DidLoadMore(stopIndex, Len(items), 0)
         /\ UNCHANGED <<feedVars, inflight, sent, lmPending>>
    ELSE \* fetchPage(items.length, searchQuery) up to its await
         /\ isLoadingRef' = TRUE
         /\ isLoadingMore' = IF Len(items) > 0 THEN TRUE ELSE isLoadingMore
         /\ inflight' = Send(inflight, Request(Len(items), searchQuery, "loadMore"))
         /\ sent' = sent + 1
         /\ lmPending' = TRUE
         /\ last' = DidLoadMore(stopIndex, Len(items), 1)
         /\ UNCHANGED <<images, loading, error, hasMore, loadedIdsRef>>

\* the render windows the grid may report for `items`
StopIndexes(items) ==
    {Len(items) - 2, Len(items) - 1, Len(items) + PAGE_SIZE - 1} \cap Nat

(* ----------------------- the platform page: Grid ---------------------- *)

\* The page mounts: a new SearchBox starts from its initial state, the
\* mount effect of useImageData runs fetchPage(0), then the Grid's effect runs
\* refresh(activeSearchTerm).
Mount ==
    /\ ~mounted
    /\ sent + 2 <= MaxAppRequests
    /\ mounted' = TRUE
    /\ showHistory' = FALSE
    /\ searchHistory' = <<>>
    /\ isLoadingHistory' = FALSE
    /\ historyIsLoadingMore' = FALSE
    /\ historyOffset' = 0
    /\ historyHasMore' = TRUE
    /\ total' = 0
    /\ Refresh(activeSearchTerm, Send(inflight, Request(0, Undefined, "mount")))
    /\ refreshedFor' = activeSearchTerm
    /\ sent' = sent + 2
    /\ last' = Did("mount", "-", 0, 2, 0, 0)
    /\ UNCHANGED <<searchVars, failQuiet, lmPending,
                   viewVars, historyInflight, historySent, authVars>>

\* The user leaves the platform page; the providers live on.
Unmount ==
    /\ mounted
    /\ mounted' = FALSE
    /\ last' = Did("unmount", "-", 0, 0, 0, 0)
    /\ UNCHANGED <<feedVars, searchVars, inflight, sent, failQuiet, exhausted,
                   lmPending,
                   refreshedFor, restVars>>

\* Grid renders the Masonry only past its loading, error and empty screens
MasonryRendered ==
    /\ mounted
    /\ ~loading
    /\ error = NoError
    /\ images # <<>>

\* Masonry onRender -> maybeLoadMore -> loadMore(start, stop, items, term)
GridLoadMore(stopIndex) ==
    /\ MasonryRendered
    /\ LoadMoreReturnsEarly(stopIndex, images) \/ sent < MaxAppRequests
    /\ LoadMore(stopIndex, images, activeSearchTerm)
    /\ UNCHANGED <<searchVars, mounted, failQuiet, exhausted,
                   refreshedFor, restVars>>

(* ------------------------ ImageSearchProvider ------------------------- *)

\* handleInputChange: setSearchTerm(text); if (showHistory)
\* setShowHistory(false)
SetSearchTerm(text) ==
    /\ mounted
    /\ searchTerm' = text
    /\ showHistory' = FALSE
    /\ last' = Did("setSearchTerm", "-", 0, 0, 0, 0)
    /\ UNCHANGED <<feedVars, activeSearchTerm, mounted, inflight, sent,
                   failQuiet, exhausted, lmPending,
                   refreshedFor, viewVars, listVars, historyInflight,
                   historySent, authVars>>

\* clean(): setSearchTerm('')
Clean ==
    /\ mounted
    /\ searchTerm' = <<>>
    /\ last' = Did("clean", "-", 0, 0, 0, 0)
    /\ UNCHANGED <<feedVars, activeSearchTerm, mounted, inflight, sent,
                   failQuiet, exhausted, lmPending,
                   refreshedFor, restVars>>

\* performSearch under a Grid whose effect runs refresh after every commit
PerformSearch_AlwaysRefresh(term, op) ==
    LET searchQuery == IF term = Undefined THEN searchTerm ELSE term
    IN  /\ activeSearchTerm' = searchQuery
        /\ sent < MaxAppRequests
        /\ Refresh(searchQuery, inflight)
        /\ refreshedFor' = searchQuery
        /\ sent' = sent + 1
        /\ last' = Did(op, "-", 0, 1, 0, 0)

\* performSearch with `term || searchTerm`
PerformSearch_OrDraft(term, op) ==
    LET searchQuery == IF term = Undefined \/ term = <<>> THEN searchTerm
                       ELSE term
    IN  /\ activeSearchTerm' = searchQuery
        /\ IF searchQuery # activeSearchTerm
           THEN /\ sent < MaxAppRequests
                /\ Refresh(searchQuery, inflight)
                /\ refreshedFor' = searchQuery
                /\ sent' = sent + 1
                /\ last' = Did(op, "-", 0, 1, 0, 0)
           ELSE /\ last' = Did(op, "-", 0, 0, 0, 0)
                /\ UNCHANGED <<feedVars, inflight, sent, exhausted,
                               refreshedFor>>

\* performSearch under a Grid whose effect does not depend on activeSearchTerm
PerformSearch_NoEffect(term, op) ==
    LET searchQuery == IF term = Undefined THEN searchTerm ELSE term
    IN  /\ activeSearchTerm' = searchQuery
        /\ last' = Did(op, "-", 0, 0, 0, 0)
        /\ UNCHANGED <<feedVars, inflight, sent, exhausted, refreshedFor>>

\* performSearch(term): setActiveSearchTerm(term ?? searchTerm), and the
\* Grid's effect on [activeSearchTerm, refresh] that follows when the
\* committed term changed
PerformSearch(term, op) ==
    LET searchQuery == IF term = Undefined THEN searchTerm ELSE term
    IN  /\ activeSearchTerm' = searchQuery
        /\ IF searchQuery # activeSearchTerm
           THEN /\ sent < MaxAppRequests
                /\ Refresh(searchQuery, inflight)
                /\ refreshedFor' = searchQuery
                /\ sent' = sent + 1
                /\ last' = Did(op, "-", 0, 1, 0, 0)
           ELSE /\ last' = Did(op, "-", 0, 0, 0, 0)
                /\ UNCHANGED <<feedVars, inflight, sent, exhausted,
                               refreshedFor>>

\* handleSearch (the button, or Enter): performSearch();
\* setShowHistory(false)
HandleSearch ==
    /\ mounted
    /\ PerformSearch(Undefined, "handleSearch")
    /\ showHistory' = FALSE
    /\ UNCHANGED <<searchTerm, mounted, failQuiet, lmPending,
                   viewVars, listVars, historyInflight, historySent,
                   authVars>>

\* handleHistoryItemClick(term): setSearchTerm(term);
\* setShowHistory(false); performSearch(term)
HandleHistoryItemClick(term) ==
    /\ mounted
    /\ searchTerm' = term
    /\ showHistory' = FALSE
    /\ PerformSearch(term, "handleHistoryItemClick")
    /\ UNCHANGED <<mounted, failQuiet, lmPending,
                   viewVars, listVars, historyInflight, historySent,
                   authVars>>

(* ---------------------- fetchPage after its await --------------------- *)

\* fetchPage with setError(null) on its success path
FetchResolves_ClearsError(r, page) ==
    LET offset   == r.params.offset
        incoming == IncomingItems(page, offset)
        base     == BaseIds(offset, loadedIdsRef)
        unique   == UniqueItems(incoming, base)
    IN  /\ BagIn(r, inflight)
        /\ inflight' = Answered(inflight, r)
        /\ loadedIdsRef' = base \cup IdsOf(unique)
        /\ images' = NextImages(offset, images, unique)
        /\ hasMore' = NextHasMore(incoming)
        /\ error' = NoError
        /\ isLoadingRef' = FALSE
        /\ isLoadingMore' = FALSE
        /\ loading' = FALSE
        /\ lmPending' = FALSE
        /\ exhausted' = (exhausted \/ Len(incoming) < PAGE_SIZE)
        /\ last' = Did("resolved", r.origin, offset, 0, Len(incoming), Len(unique))
        /\ UNCHANGED <<searchVars, mounted, sent, failQuiet,
                   refreshedFor, restVars>>

\* sourcesAPI.getSources resolved with `page` for request r
FetchResolves(r, page) ==
    LET offset   == r.params.offset
        incoming == IncomingItems(page, offset)
        base     == BaseIds(offset, loadedIdsRef)
        unique   == UniqueItems(incoming, base)
    IN  /\ BagIn(r, inflight)
        /\ inflight' = Answered(inflight, r)
        /\ loadedIdsRef' = base \cup IdsOf(unique)
        /\ images' = NextImages(offset, images, unique)
        /\ hasMore' = NextHasMore(incoming)
        \* finally
        /\ isLoadingRef' = FALSE
        /\ isLoadingMore' = FALSE
        /\ loading' = FALSE
        /\ lmPending' = FALSE
        /\ exhausted' = (exhausted \/ Len(incoming) < PAGE_SIZE)
        /\ last' = Did("resolved", r.origin, offset, 0, Len(incoming), Len(unique))
        /\ UNCHANGED <<error, searchVars, mounted, sent, failQuiet,
                   refreshedFor, restVars>>

\* a catch block that also gives up paging: setHasMore(false)
FetchRejects_StopsPaging(r) ==
    /\ BagIn(r, inflight)
    /\ inflight' = Answered(inflight, r)
    /\ error' = FetchErrorMessage
    /\ hasMore' = FALSE
    /\ isLoadingRef' = FALSE
    /\ isLoadingMore' = FALSE
    /\ loading' = FALSE
    /\ lmPending' = FALSE
    /\ failQuiet' = (inflight' = EmptyBag)
    /\ last' = Did("rejected", r.origin, r.params.offset, 0, 0, 0)
    /\ UNCHANGED <<images, loadedIdsRef, searchVars, mounted, sent, exhausted,
                   refreshedFor, restVars>>

\* fetchPage without its finally block
FetchRejects_NoFinally(r) ==
    /\ BagIn(r, inflight)
    /\ inflight' = Answered(inflight, r)
    /\ error' = FetchErrorMessage
    /\ lmPending' = FALSE
    /\ failQuiet' = (inflight' = EmptyBag)
    /\ last' = Did("rejected", r.origin, r.params.offset, 0, 0, 0)
    /\ UNCHANGED <<images, hasMore, loadedIdsRef, isLoadingRef, isLoadingMore,
                   loading, searchVars, mounted, sent, exhausted,
                   refreshedFor, restVars>>

\* sourcesAPI.getSources rejected for request r: catch, then finally
FetchRejects(r) ==
    /\ BagIn(r, inflight)
    /\ inflight' = Answered(inflight, r)
    /\ error' = FetchErrorMessage
    /\ isLoadingRef' = FALSE
    /\ isLoadingMore' = FALSE
    /\ loading' = FALSE
    /\ lmPending' = FALSE
    /\ failQuiet' = (inflight' = EmptyBag)
    /\ last' = Did("rejected", r.origin, r.params.offset, 0, 0, 0)
    /\ UNCHANGED <<images, hasMore, loadedIdsRef, searchVars, mounted, sent,
                   exhausted,
                   refreshedFor, restVars>>

(* ------------------- the hook's functions, called freely -------------- *)

\* the mount effect of useImageData alone: fetchPage(0) up to its await
MountFetch ==
    /\ sent < MaxRequests
    /\ isLoadingRef' = TRUE
    /\ inflight' = Send(inflight, Request(0, Undefined, "mount"))
    /\ sent' = sent + 1
    /\ last' = Did("mountFetch", "-", 0, 1, 0, 0)
    /\ UNCHANGED <<images, loading, error, hasMore, isLoadingMore,
                   loadedIdsRef, searchVars, mounted, failQuiet, exhausted,
                   lmPending,
                   refreshedFor, restVars>>

\* refresh(searchQuery) with any argument
CallRefresh(searchQuery) ==
    /\ sent < MaxRequests
    /\ Refresh(searchQuery, inflight)
    /\ sent' = sent + 1
    /\ last' = Did("refresh", "-", 0, 1, 0, 0)
    /\ UNCHANGED <<searchVars, mounted, failQuiet, lmPending,
                   refreshedFor, restVars>>

\* loadMore(startIndex, stopIndex, images, searchQuery) with any arguments
CallLoadMore(stopIndex, searchQuery) ==
    /\ LoadMoreReturnsEarly(stopIndex, images) \/ sent < MaxRequests
    /\ LoadMore(stopIndex, images, searchQuery)
    /\ UNCHANGED <<searchVars, mounted, failQuiet, exhausted,
                   refreshedFor, restVars>>

\* fetchPage(offset, searchQuery) called directly, up to its await
CallFetchPage(offset, searchQuery) ==
    /\ sent < MaxRequests
    /\ isLoadingRef' = TRUE
    /\ isLoadingMore' = IF offset > 0 THEN TRUE ELSE isLoadingMore
    /\ inflight' = Send(inflight, Request(offset, searchQuery, "fetchPage"))
    /\ sent' = sent + 1
    /\ last' = Did("fetchPage", "-", offset, 1, 0, 0)
    /\ UNCHANGED <<images, loading, error, hasMore, loadedIdsRef, searchVars,
                   mounted, failQuiet, exhausted, lmPending,
                   refreshedFor, restVars>>

\* the searchQuery argument a direct caller of loadMore or fetchPage passes
CallerTerm == <<SP, "n">>

\* the searchQuery arguments a direct caller of loadMore passes: a blank term
\* and a term with a space before it
LoadMoreTerms == {<<SP>>, CallerTerm}

\* the offsets a direct caller of fetchPage passes (MountFetch passes 0)
Offsets == {0, Len(images)}

(* ------------------- ImageViewProvider, ImageCard, ImageView ---------- *)

\* the cards the user clicks: the first and the last of the grid
CardIndexes == {1, Len(images)}

\* handleClick that opens the viewer only when it is closed
HandleClick_KeepsOpen(i) ==
    /\ MasonryRendered
    /\ i \in 1..Len(images)
    /\ imageData' = IF imageData = NoImageData THEN images[i] ELSE imageData
    /\ last' = Did("handleClick", "-", 0, 0, 0, 0)
    /\ UNCHANGED <<feedVars, searchVars, mounted, inflight, sent, failQuiet,
                   exhausted, lmPending, refreshedFor, historyVars,
                   authVars>>

\* ImageCard handleClick: setImageData(data), for the card of images[i]
HandleClick(i) ==
    /\ MasonryRendered
    /\ i \in 1..Len(images)
    /\ imageData' = images[i]
    /\ last' = Did("handleClick", "-", 0, 0, 0, 0)
    /\ UNCHANGED <<feedVars, searchVars, mounted, inflight, sent, failQuiet,
                   exhausted, lmPending, refreshedFor, historyVars,
                   authVars>>

\* useImageView clean(): setImageData(null), from the Modal's onClose and the
\* close button, which ImageView renders while imageData is set
CleanImageView ==
    /\ mounted
    /\ imageData # NoImageData
    /\ imageData' = NoImageData
    /\ last' = Did("cleanImageView", "-", 0, 0, 0, 0)
    /\ UNCHANGED <<feedVars, searchVars, mounted, inflight, sent, failQuiet,
                   exhausted, lmPending, refreshedFor, historyVars,
                   authVars>>

(* ------------------------- the search history ------------------------- *)

\* the feed store, the search context and the page, which the search
\* history leaves alone
storeVars == <<feedVars, searchVars, mounted, inflight, sent, failQuiet,
               exhausted, lmPending, refreshedFor>>

NoEntryId == <<"h", 0>>

\* searchAPI.getHistory({ offset, limit: ITEMS_PER_PAGE })
HistoryRequest(loadMore, currentOffset) ==
    [kind |-> "getHistory", loadMore |-> loadMore, offset |-> currentOffset,
     limit |-> ITEMS_PER_PAGE, id |-> NoEntryId]

\* searchAPI.deleteSearchEntry(searchId)
DeleteRequest(searchId) ==
    [kind |-> "delete", loadMore |-> FALSE, offset |-> 0, limit |-> 0,
     id |-> searchId]

HistoryPending == BagToSet(historyInflight)

\* what `last` records of a step of the search history: the list, the
\* total, the offset and hasMore it found
DidHistory(op, r, success) ==
    [op |-> op, request |-> r, success |-> success,
     before |-> searchHistory, totalBefore |-> total,
     offsetBefore |-> historyOffset, hasMoreBefore |-> historyHasMore]

\* the dropdown renders the list, with a delete button on every entry
HistoryListRendered ==
    mounted /\ showHistory /\ ~isLoadingHistory /\ Len(searchHistory) > 0

\* fetchSearchHistory(loadMore) up to its await
FetchSearchHistory(loadMore) ==
    /\ historySent < MaxHistoryRequests
    /\ IF loadMore
         THEN /\ historyIsLoadingMore' = TRUE
              /\ UNCHANGED <<isLoadingHistory, historyOffset, historyHasMore,
                             searchHistory>>
         ELSE /\ isLoadingHistory' = TRUE
              /\ historyOffset' = 0
              /\ historyHasMore' = TRUE
              /\ searchHistory' = <<>>
              /\ UNCHANGED historyIsLoadingMore
    /\ historyInflight' =
          Send(historyInflight,
               HistoryRequest(loadMore, IF loadMore THEN historyOffset ELSE 0))
    /\ historySent' = historySent + 1
    /\ UNCHANGED total

\* handleHistoryHover: setShowHistory(true); fetchSearchHistory()
HandleHistoryHover ==
    /\ mounted
    /\ showHistory' = TRUE
    /\ FetchSearchHistory(FALSE)
    /\ last' = DidHistory("handleHistoryHover", HistoryRequest(FALSE, 0), FALSE)
    /\ UNCHANGED <<storeVars, viewVars, authVars>>

\* the IntersectionObserver's callback, on the sentinel rendered under the
\* list while hasMore: fetchSearchHistory(true)
ObserverLoadMore ==
    /\ HistoryListRendered
    /\ historyHasMore
    /\ ~historyIsLoadingMore
    /\ FetchSearchHistory(TRUE)
    /\ last' = DidHistory("observerLoadMore",
                          HistoryRequest(TRUE, historyOffset), FALSE)
    /\ UNCHANGED <<storeVars, viewVars, authVars, showHistory>>

\* handleDropdownLeave, and the timer of scheduleHide: setShowHistory(false)
HandleDropdownLeave ==
    /\ mounted
    /\ showHistory
    /\ showHistory' = FALSE
    /\ last' = DidHistory("handleDropdownLeave", DeleteRequest(NoEntryId), FALSE)
    /\ UNCHANGED <<storeVars, viewVars, authVars, listVars, historyInflight,
                   historySent>>

\* fetchSearchHistory that takes totalLoaded from the length of the list
HistoryResolves_CountsList(r, resp) ==
    /\ r \in HistoryPending
    /\ r.kind = "getHistory"
    /\ historyInflight' = historyInflight (-) SetToBag({r})
    /\ IF resp.success
         THEN /\ total' = resp.total
              /\ searchHistory' = IF r.loadMore
                                    THEN searchHistory \o resp.data
                                    ELSE resp.data
              /\ historyOffset' = IF r.loadMore
                                    THEN r.offset + ITEMS_PER_PAGE
                                    ELSE ITEMS_PER_PAGE
              /\ historyHasMore' = (Len(searchHistory') < resp.total)
         ELSE UNCHANGED <<total, searchHistory, historyOffset, historyHasMore>>
    /\ isLoadingHistory' = FALSE
    /\ historyIsLoadingMore' = FALSE
    /\ last' = DidHistory("historyResolved", r, resp.success)
    /\ UNCHANGED <<storeVars, viewVars, authVars, showHistory, historySent>>

\* getHistory resolves with response.data = resp: the rest of
\* fetchSearchHistory
HistoryResolves(r, resp) ==
    /\ r \in HistoryPending
    /\ r.kind = "getHistory"
    /\ historyInflight' = historyInflight (-) SetToBag({r})
    /\ IF resp.success
         THEN /\ total' = resp.total
              /\ searchHistory' = IF r.loadMore
                                    THEN searchHistory \o resp.data
                                    ELSE resp.data
              /\ historyOffset' = IF r.loadMore
                                    THEN r.offset + ITEMS_PER_PAGE
                                    ELSE ITEMS_PER_PAGE
              /\ historyHasMore' =
                    ((IF r.loadMore THEN r.offset + Len(resp.data)
                                    ELSE Len(resp.data)) < resp.total)
         ELSE UNCHANGED <<total, searchHistory, historyOffset, historyHasMore>>
    /\ isLoadingHistory' = FALSE
    /\ historyIsLoadingMore' = FALSE
    /\ last' = DidHistory("historyResolved", r, resp.success)
    /\ UNCHANGED <<storeVars, viewVars, authVars, showHistory, historySent>>

\* fetchSearchHistory whose catch empties the list
HistoryRejects_EmptiesList(r) ==
    /\ r \in HistoryPending
    /\ r.kind = "getHistory"
    /\ historyInflight' = historyInflight (-) SetToBag({r})
    /\ isLoadingHistory' = FALSE
    /\ historyIsLoadingMore' = FALSE
    /\ searchHistory' = <<>>
    /\ last' = DidHistory("historyRejected", r, FALSE)
    /\ UNCHANGED <<storeVars, viewVars, authVars, showHistory, historySent, total,
                   historyOffset, historyHasMore>>

\* getHistory rejects: the catch logs, the finally clears the flags
HistoryRejects(r) ==
    /\ r \in HistoryPending
    /\ r.kind = "getHistory"
    /\ historyInflight' = historyInflight (-) SetToBag({r})
    /\ isLoadingHistory' = FALSE
    /\ historyIsLoadingMore' = FALSE
    /\ last' = DidHistory("historyRejected", r, FALSE)
    /\ UNCHANGED <<storeVars, viewVars, authVars, showHistory, historySent, total,
                   searchHistory, historyOffset, historyHasMore>>

\* handleDeleteHistoryItem(searchId) up to its await, from the delete button
\* of an entry of the list
HandleDeleteHistoryItem(searchId) ==
    /\ HistoryListRendered
    /\ \E i \in 1..Len(searchHistory) : searchHistory[i].id = searchId
    /\ historySent < MaxHistoryRequests
    /\ historyInflight' = Send(historyInflight, DeleteRequest(searchId))
    /\ historySent' = historySent + 1
    /\ last' = DidHistory("handleDeleteHistoryItem", DeleteRequest(searchId),
                          FALSE)
    /\ UNCHANGED <<storeVars, viewVars, authVars, showHistory, listVars>>

\* handleDeleteHistoryItem that updates the list whatever the server says
DeleteResolves_IgnoresSuccess(r, success) ==
    /\ r \in HistoryPending
    /\ r.kind = "delete"
    /\ historyInflight' = historyInflight (-) SetToBag({r})
    /\ searchHistory' = SelectSeq(searchHistory, LAMBDA item : item.id # r.id)
    /\ total' = total - 1
    /\ last' = DidHistory("deleteResolved", r, success)
    /\ UNCHANGED <<storeVars, viewVars, authVars, showHistory, historySent,
                   isLoadingHistory, historyIsLoadingMore, historyOffset,
                   historyHasMore>>

\* deleteSearchEntry resolves with response.data.success = success: the rest
\* of handleDeleteHistoryItem
DeleteResolves(r, success) ==
    /\ r \in HistoryPending
    /\ r.kind = "delete"
    /\ historyInflight' = historyInflight (-) SetToBag({r})
    /\ IF success
         THEN /\ searchHistory' =
                    SelectSeq(searchHistory, LAMBDA item : item.id # r.id)
              /\ total' = total - 1
         ELSE UNCHANGED <<searchHistory, total>>
    /\ last' = DidHistory("deleteResolved", r, success)
    /\ UNCHANGED <<storeVars, viewVars, authVars, showHistory, historySent,
                   isLoadingHistory, historyIsLoadingMore, historyOffset,
                   historyHasMore>>

\* deleteSearchEntry rejects: the catch logs
DeleteRejects(r) ==
    /\ r \in HistoryPending
    /\ r.kind = "delete"
    /\ historyInflight' = historyInflight (-) SetToBag({r})
    /\ last' = DidHistory("deleteRejected", r, FALSE)
    /\ UNCHANGED <<storeVars, viewVars, authVars, showHistory, historySent, listVars>>

(* ----------------------- the token and the pages ---------------------- *)

\* what the session leaves alone: the feed, the viewer, the search history
feedSideVars == <<storeVars, viewVars, historyVars>>

ValidateEndpoint == "/api/auth/validate"
MeEndpoint == "/api/auth/me"
LoginEndpoint == "/api/login"
SignupEndpoint == "/api/signup"
\* the endpoints the feed and the search box call
FeedEndpoints == {"/api/sources", "/api/search/history"}

\* the status of a response that rejects: 401, or another error status
ErrorStatuses == {401, 500}

\* response.data.token of login and signup: absent, empty, or a token
ResponseTokens == {NoToken, "", "t1"}

\* localStorage.setItem('authToken', token) stores a string
Stored(token) == IF token = NoToken THEN "undefined" ELSE token

\* the Authorization header of a request: the defaults, then the request
\* interceptor
RequestHeader_DefaultsOnly(token, defaults) == defaults

RequestHeader(token, defaults) ==
    IF Truthy(token) THEN Bearer(token) ELSE defaults

\* the response interceptor's error handler: the stored token it leaves
ResponseInterceptor_Keeps(status, token) == token

ResponseInterceptor(status, token) ==
    IF status = 401 THEN NoToken ELSE token

\* a request of `origin` ("platform", "auth" or "feed"), sent while `token`
\* is stored and `defaults` is the default header; live while the component
\* that awaits it is mounted
ApiRequest(endpoint, origin, token, defaults) ==
    [n |-> authSent + 1, endpoint |-> endpoint, origin |-> origin,
     live |-> TRUE, authorization |-> RequestHeader(token, defaults)]

NoRequest ==
    [n |-> 0, endpoint |-> "-", origin |-> "-", live |-> FALSE,
     authorization |-> NoHeader]

\* the requests left to components that have unmounted
Detach(requests) == { [w EXCEPT !.live = FALSE] : w \in requests }

\* the page that a navigation to `to` mounts
Entered(to) == IF Path(to) = Path(route) THEN "-" ELSE Path(to)

\* what `last` records of a step of the session
DidAuth(op, w, status, ok, entered) ==
    [op |-> op, request |-> w, status |-> status, ok |-> ok,
     entered |-> entered,
     delivered |-> IF status = 200 THEN "resolved" ELSE "rejected"]

\* the Platform renders its content
PlatformShowsFeed ==
    route = PlatformRoute /\ ~isValidating /\ isAuthenticated

\* navigate(to), with `token` stored, `defaults` the default header,
\* `requests` in flight and `validating` the Platform's isValidating; the
\* page that mounts runs its mount effect: Platform validateUserAuth up to
\* its await, Auth checkAuthentication up to its await
Navigate(to, token, defaults, requests, validating) ==
    IF Path(to) = Path(route)
      THEN /\ route' = to
           /\ wire' = requests
           /\ isValidating' = validating
           /\ UNCHANGED <<authSent, isAuthenticated, authIsLoading,
                          validReturned>>
      ELSE IF to = PlatformRoute
        THEN /\ isAuthenticated' = FALSE
             /\ validReturned' = FALSE
             /\ IF Truthy(token)
                  THEN /\ authSent < MaxAuthRequests
                       /\ route' = to
                       /\ isValidating' = TRUE
                       /\ wire' = Detach(requests) \cup
                             {ApiRequest(ValidateEndpoint, "platform", token,
                                         defaults)}
                       /\ authSent' = authSent + 1
                       /\ UNCHANGED authIsLoading
                  ELSE /\ route' = LoginRoute
                       /\ isValidating' = FALSE
                       /\ wire' = Detach(requests)
                       /\ authIsLoading' = FALSE
                       /\ UNCHANGED authSent
        ELSE IF Path(to) = "/auth"
          THEN /\ route' = to
               /\ authIsLoading' = FALSE
               /\ isValidating' = validating
               /\ UNCHANGED <<isAuthenticated, validReturned>>
               /\ IF Truthy(token)
                    THEN /\ authSent < MaxAuthRequests
                         /\ wire' = Detach(requests) \cup
                               {ApiRequest(ValidateEndpoint, "auth", token,
                                           defaults)}
                         /\ authSent' = authSent + 1
                    ELSE /\ wire' = Detach(requests)
                         /\ UNCHANGED authSent
          ELSE /\ route' = to
               /\ wire' = Detach(requests)
               /\ isValidating' = validating
               /\ UNCHANGED <<authSent, isAuthenticated, authIsLoading,
                              validReturned>>

\* the user goes to another route: Home's buttons, the Platform's logo,
\* Auth's tabs and its link back, the browser's history
UserNavigates(to) ==
    /\ to # route
    /\ Navigate(to, authToken, defaultAuthorization, wire, isValidating)
    /\ last' = DidAuth("userNavigates", NoRequest, 0, FALSE, Entered(to))
    /\ UNCHANGED <<feedSideVars, authToken, defaultAuthorization, timers>>

\* the site is loaded anew at the home route: localStorage stays, the
\* module's defaults, the timers and the pending requests go
Reload ==
    /\ route' = HomeRoute
    /\ defaultAuthorization' = NoHeader
    /\ wire' = {}
    /\ timers' = 0
    /\ last' = DidAuth("reload", NoRequest, 0, FALSE, "-")
    /\ UNCHANGED <<feedSideVars, authToken, isValidating, isAuthenticated,
                   authIsLoading, authSent, validReturned>>

\* UserAvatar handleLogout: apiUtils.removeAuthToken(); navigate('/')
HandleLogout ==
    /\ PlatformShowsFeed
    /\ authToken' = NoToken
    /\ defaultAuthorization' = NoHeader
    /\ Navigate(HomeRoute, NoToken, NoHeader, wire, isValidating)
    /\ last' = DidAuth("handleLogout", NoRequest, 0, FALSE, Entered(HomeRoute))
    /\ UNCHANGED <<feedSideVars, timers>>

\* a call of sourcesAPI or searchAPI from the content of the Platform
FeedCall(endpoint) ==
    /\ PlatformShowsFeed
    /\ authSent < MaxAuthRequests
    /\ wire' = wire \cup
          {ApiRequest(endpoint, "feed", authToken, defaultAuthorization)}
    /\ authSent' = authSent + 1
    /\ last' = DidAuth("feedCall", NoRequest, 0, FALSE, "-")
    /\ UNCHANGED <<feedSideVars, authToken, defaultAuthorization, route,
                   isValidating, isAuthenticated, authIsLoading, timers,
                   validReturned>>

\* that call settles: with status 200 it resolves, otherwise the response
\* interceptor runs and the caller's promise rejects
FeedSettles(w, status) ==
    /\ w \in wire
    /\ w.origin = "feed"
    /\ wire' = wire \ {w}
    /\ authToken' = ResponseInterceptor(status, authToken)
    /\ last' = DidAuth("feedSettled", w, status, status = 200, "-")
    /\ UNCHANGED <<feedSideVars, defaultAuthorization, route, isValidating,
                   isAuthenticated, authIsLoading, authSent, timers,
                   validReturned>>

\* Platform validateUserAuth: validateToken resolves with
\* response.data.valid = valid
PlatformValidateResolves(w, valid) ==
    /\ w \in wire
    /\ w.origin = "platform"
    /\ w.endpoint = ValidateEndpoint
    /\ IF valid
         THEN /\ authSent < MaxAuthRequests
              /\ isAuthenticated' = (w.live \/ isAuthenticated)
              /\ validReturned' = (w.live \/ validReturned)
              /\ wire' = (wire \ {w}) \cup
                    {[ApiRequest(MeEndpoint, "platform", authToken,
                                 defaultAuthorization)
                        EXCEPT !.live = w.live]}
              /\ authSent' = authSent + 1
              /\ UNCHANGED <<authToken, defaultAuthorization, route,
                             isValidating, authIsLoading>>
         ELSE /\ authToken' = NoToken
              /\ defaultAuthorization' = NoHeader
              /\ Navigate(LoginRoute, NoToken, NoHeader, wire \ {w},
                          isValidating /\ ~w.live)
    /\ last' = DidAuth("platformValidateResolved", w, 200, valid,
                       IF valid THEN "-" ELSE Entered(LoginRoute))
    /\ UNCHANGED <<feedSideVars, timers>>

\* validateUserAuth whose catch only redirects
PlatformValidateRejects_KeepsToken(w, status) ==
    /\ w \in wire
    /\ w.origin = "platform"
    /\ w.endpoint = ValidateEndpoint
    /\ authToken' = ResponseInterceptor(status, authToken)
    /\ UNCHANGED defaultAuthorization
    /\ Navigate(LoginRoute, NoToken, NoHeader, wire \ {w},
                isValidating /\ ~w.live)
    /\ last' = DidAuth("platformValidateRejected", w, status, FALSE,
                       Entered(LoginRoute))
    /\ UNCHANGED <<feedSideVars, timers>>

\* Platform validateUserAuth: validateToken rejects; the response
\* interceptor, then the catch and the finally
PlatformValidateRejects(w, status) ==
    /\ w \in wire
    /\ w.origin = "platform"
    /\ w.endpoint = ValidateEndpoint
    /\ authToken' = NoToken
    /\ defaultAuthorization' = NoHeader
    /\ Navigate(LoginRoute, NoToken, NoHeader, wire \ {w},
                isValidating /\ ~w.live)
    /\ last' = DidAuth("platformValidateRejected", w, status, FALSE,
                       Entered(LoginRoute))
    /\ UNCHANGED <<feedSideVars, timers>>

\* Platform validateUserAuth: getCurrentUser settles, then the finally
MeSettles(w, status) ==
    /\ w \in wire
    /\ w.endpoint = MeEndpoint
    /\ wire' = wire \ {w}
    /\ authToken' = ResponseInterceptor(status, authToken)
    /\ isValidating' = (isValidating /\ ~w.live)
    /\ last' = DidAuth("meSettled", w, status, status = 200, "-")
    /\ UNCHANGED <<feedSideVars, defaultAuthorization, route,
                   isAuthenticated, authIsLoading, authSent, timers,
                   validReturned>>

\* Auth checkAuthentication: validateToken resolves
AuthValidateResolves(w, valid) ==
    /\ w \in wire
    /\ w.origin = "auth"
    /\ w.endpoint = ValidateEndpoint
    /\ IF valid
         THEN /\ Navigate(PlatformRoute, authToken, defaultAuthorization,
                          wire \ {w}, isValidating)
              /\ UNCHANGED <<authToken, defaultAuthorization>>
         ELSE /\ authToken' = NoToken
              /\ defaultAuthorization' = NoHeader
              /\ wire' = wire \ {w}
              /\ UNCHANGED <<route, isValidating, isAuthenticated,
                             authIsLoading, authSent, validReturned>>
    /\ last' = DidAuth("authValidateResolved", w, 200, valid,
                       IF valid THEN Entered(PlatformRoute) ELSE "-")
    /\ UNCHANGED <<feedSideVars, timers>>

\* Auth checkAuthentication: validateToken rejects
AuthValidateRejects(w, status) ==
    /\ w \in wire
    /\ w.origin = "auth"
    /\ w.endpoint = ValidateEndpoint
    /\ authToken' = NoToken
    /\ defaultAuthorization' = NoHeader
    /\ wire' = wire \ {w}
    /\ last' = DidAuth("authValidateRejected", w, status, FALSE, "-")
    /\ UNCHANGED <<feedSideVars, route, isValidating, isAuthenticated,
                   authIsLoading, authSent, timers, validReturned>>

\* Auth handleSubmit up to its await, on the tab the route names
HandleSubmit ==
    /\ Path(route) = "/auth"
    /\ ~authIsLoading
    /\ authSent < MaxAuthRequests
    /\ authIsLoading' = TRUE
    /\ wire' = wire \cup
          {ApiRequest(IF route = SignupRoute THEN SignupEndpoint
                                             ELSE LoginEndpoint,
                      "auth", authToken, defaultAuthorization)}
    /\ authSent' = authSent + 1
    /\ last' = DidAuth("handleSubmit", NoRequest, 0, FALSE, "-")
    /\ UNCHANGED <<feedSideVars, authToken, defaultAuthorization, route,
                   isValidating, isAuthenticated, timers, validReturned>>

\* Auth handleSubmit: signup or login resolves with response.data =
\* { success, token }
SubmitResolves(w, success, token) ==
    /\ w \in wire
    /\ w.endpoint \in {LoginEndpoint, SignupEndpoint}
    /\ wire' = wire \ {w}
    /\ IF success /\ (w.endpoint = LoginEndpoint \/ Truthy(token))
         THEN /\ authToken' = Stored(token)
              /\ defaultAuthorization' = Bearer(Stored(token))
              /\ timers' = timers + 1
              /\ UNCHANGED route
         ELSE /\ route' = IF success /\ w.live THEN LoginRoute ELSE route
              /\ UNCHANGED <<authToken, defaultAuthorization, timers>>
    /\ authIsLoading' = (authIsLoading /\ ~w.live)
    /\ last' = DidAuth("submitResolved", w, 200, success, "-")
    /\ UNCHANGED <<feedSideVars, isValidating, isAuthenticated, authSent,
                   validReturned>>

\* Auth handleSubmit: signup or login rejects
SubmitRejects(w, status) ==
    /\ w \in wire
    /\ w.endpoint \in {LoginEndpoint, SignupEndpoint}
    /\ wire' = wire \ {w}
    /\ authToken' = ResponseInterceptor(status, authToken)
    /\ authIsLoading' = (authIsLoading /\ ~w.live)
    /\ last' = DidAuth("submitRejected", w, status, FALSE, "-")
    /\ UNCHANGED <<feedSideVars, defaultAuthorization, route, isValidating,
                   isAuthenticated, authSent, timers, validReturned>>

\* the timer Auth sets after a login: navigate("/platform")
TimerFires ==
    /\ timers > 0
    /\ timers' = timers - 1
    /\ Navigate(PlatformRoute, authToken, defaultAuthorization, wire,
                isValidating)
    /\ last' = DidAuth("timerFires", NoRequest, 0, FALSE,
                       Entered(PlatformRoute))
    /\ UNCHANGED <<feedSideVars, authToken, defaultAuthorization>>

(* --------------------------- specifications --------------------------- *)

\* the application: what the mounted page can do
Next ==
    \/ Mount
    \/ Unmount
    \/ \E text \in Terms : SetSearchTerm(text)
    \/ Clean
    \/ HandleSearch
    \/ \E term \in Terms : HandleHistoryItemClick(term)
    \/ \E stopIndex \in StopIndexes(images) : GridLoadMore(stopIndex)
    \/ \E r \in Pending : \E page \in AppPages : FetchResolves(r, page)
    \/ \E r \in Pending : FetchRejects(r)

Spec == Init /\ [][Next]_vars

\* the feed store under any use of fetchPage, loadMore and refresh
NextApi ==
    \/ MountFetch
    \/ \E term \in Terms : CallRefresh(term)
    \/ \E stopIndex \in StopIndexes(images) : \E term \in LoadMoreTerms :
          CallLoadMore(stopIndex, term)
    \/ \E offset \in Offsets : CallFetchPage(offset, CallerTerm)
    \/ \E r \in Pending : \E page \in Pages : FetchResolves(r, page)
    \/ \E r \in Pending : FetchRejects(r)

SpecApi == Init /\ [][NextApi]_vars

\* some request to /api/sources is answered
Completes ==
    \E r \in Pending :
       \/ FetchRejects(r)
       \/ \E page \in AppPages : FetchResolves(r, page)

\* the hook's functions called freely, the server answering with AppPages
NextFair ==
    \/ MountFetch
    \/ \E term \in Terms : CallRefresh(term)
    \/ \E stopIndex \in StopIndexes(images) : \E term \in LoadMoreTerms :
          CallLoadMore(stopIndex, term)
    \/ \E offset \in Offsets : CallFetchPage(offset, CallerTerm)
    \/ Completes

\* ... and answering every request in the end
SpecApiFair == Init /\ [][NextFair]_vars /\ WF_vars(Completes)

\* the page with its detail viewer, the search box left alone
NextView ==
    \/ Mount
    \/ Unmount
    \/ \E stopIndex \in StopIndexes(images) : GridLoadMore(stopIndex)
    \/ \E i \in CardIndexes : HandleClick(i)
    \/ CleanImageView
    \/ \E r \in Pending : \E page \in AppPages : FetchResolves(r, page)
    \/ \E r \in Pending : FetchRejects(r)

SpecView == Init /\ [][NextView]_vars

\* the page with the dropdown of the search history, the feed left alone
NextHistory ==
    \/ Mount
    \/ HandleHistoryHover
    \/ ObserverLoadMore
    \/ HandleDropdownLeave
    \/ \E k \in 1..3 : HandleDeleteHistoryItem(HistoryEntry(k).id)
    \/ \E r \in HistoryPending : \E resp \in HistoryResponses :
          HistoryResolves(r, resp)
    \/ \E r \in HistoryPending : HistoryRejects(r)
    \/ \E r \in HistoryPending : \E success \in BOOLEAN :
          DeleteResolves(r, success)
    \/ \E r \in HistoryPending : DeleteRejects(r)

SpecHistory == Init /\ [][NextHistory]_vars

\* some request of the session is answered
Settles ==
    \E w \in wire :
       \/ \E status \in ErrorStatuses \cup {200} : FeedSettles(w, status)
       \/ \E valid \in BOOLEAN : PlatformValidateResolves(w, valid)
       \/ \E status \in ErrorStatuses : PlatformValidateRejects(w, status)
       \/ \E status \in ErrorStatuses \cup {200} : MeSettles(w, status)
       \/ \E valid \in BOOLEAN : AuthValidateResolves(w, valid)
       \/ \E status \in ErrorStatuses : AuthValidateRejects(w, status)
       \/ \E success \in BOOLEAN : \E token \in ResponseTokens :
             SubmitResolves(w, success, token)
       \/ \E status \in ErrorStatuses : SubmitRejects(w, status)

\* the pages, the token and the API module, the feed left alone
NextAuth ==
    \/ \E to \in Routes : UserNavigates(to)
    \/ Reload
    \/ HandleLogout
    \/ \E endpoint \in FeedEndpoints : FeedCall(endpoint)
    \/ HandleSubmit
    \/ TimerFires
    \/ Settles

\* every request is answered in the end, unless the site is loaded anew
SpecAuth == InitReturning /\ [][NextAuth]_vars /\ WF_vars(Settles)

\* the dropdown of the search history against the server of ServerResponse
NextHistoryOrdered ==
    \/ Mount
    \/ HandleHistoryHover
    \/ ObserverLoadMore
    \/ HandleDropdownLeave
    \/ \E r \in HistoryPending : HistoryResolves(r, ServerResponse(r))
    \/ \E r \in HistoryPending : HistoryResolves(r, NoSuccess)
    \/ \E r \in HistoryPending : HistoryRejects(r)

SpecHistoryOrdered == Init /\ [][NextHistoryOrdered]_vars

\* the dropdown of the search history against the responses of
\* PagingResponses
NextHistoryPaging ==
    \/ Mount
    \/ HandleHistoryHover
    \/ ObserverLoadMore
    \/ \E r \in HistoryPending : \E resp \in PagingResponses :
          HistoryResolves(r, resp)
    \/ \E r \in HistoryPending : HistoryRejects(r)

SpecHistoryPaging == Init /\ [][NextHistoryPaging]_vars

\* fetchPage called at offset 0 and at the end of items, the server
\* answering with short pages: null entries, records without id or URL
NextRepair ==
    \/ MountFetch
    \/ \E offset \in Offsets : CallFetchPage(offset, CallerTerm)
    \/ \E r \in Pending : \E page \in ShortPages : FetchResolves(r, page)
    \/ \E r \in Pending : FetchRejects(r)

SpecRepair == Init /\ [][NextRepair]_vars

(* ------------------------------- claims ------------------------------- *)

\* the handlers that call refresh
RefreshOps == {"refresh", "mount", "handleSearch", "handleHistoryItemClick"}

\* this step ran refresh
RefreshStep == last'.op \in RefreshOps /\ last'.issued > 0

\* the records of seq whose id occurs neither in `loaded` nor earlier in seq,
\* in the order of seq (from position i on)
RECURSIVE FirstNewFrom(_, _, _)
FirstNewFrom(seq, loaded, i) ==
    IF i > Len(seq) THEN <<>>
    ELSE (IF /\ seq[i].id \notin loaded
             /\ \A j \in 1..(i - 1) : seq[j].id # seq[i].id
          THEN <<seq[i]>> ELSE <<>>)
         \o FirstNewFrom(seq, loaded, i + 1)

\* C1: in every reachable state, under any interleaving of the mount-time
\* fetch, refresh, loadMore, direct fetchPage calls and completions of
\* fetches in any order, with pages that overlap in ids or repeat an id,
\* images holds no two records with the same id.
C1_NoDuplicateIds ==
    \A i, j \in 1..Len(images) : i # j => images[i].id # images[j].id

\* a page at offset > 0 was appended of which some records were rejected as
\* duplicates and some admitted
C1_Witness ==
    /\ last.op = "resolved"
    /\ last.offset > 0
    /\ last.before > 0
    /\ 0 < last.added
    /\ last.added < last.raw

\* `last` after this step fits request r answered with `page`
AnswerFits(r, page) ==
    /\ last'.op = "resolved"
    /\ last'.origin = r.origin
    /\ last'.offset = r.params.offset
    /\ last'.raw = Len(FilterBoolean(page))

\* C2: refresh makes images empty at once, and the moment the page-0 fetch
\* that a refresh issued resolves, images is exactly that page's records
\* with repeated ids removed (first occurrence kept, page order kept),
\* whatever images and the dedup set held when the response arrived.
C2_RefreshThenFirstPage ==
    [][ /\ RefreshStep => images' = <<>>
        /\ \A r \in Pending : \A page \in Pages :
              (/\ r.origin = "refresh"
               /\ AnswerFits(r, page)
               /\ FetchResolves(r, page))
              => images' = FirstNewFrom(IncomingItems(page, 0), {}, 1)
      ]_vars

\* the response to a refresh arrived when images was not empty, and its page
\* repeated an id
C2_Witness ==
    /\ last.op = "resolved"
    /\ last.origin = "refresh"
    /\ last.before > 0
    /\ 0 < last.added
    /\ last.added < last.raw
    /\ Len(images) = last.added

\* C3: when loadMore has sent a request and no fetch has completed since, a
\* second call of loadMore sends nothing and changes nothing: the two calls
\* make one request.
C3_SecondLoadMoreIsNoOp ==
    [][ (lmPending /\ last'.op = "loadMore")
        => /\ sent' = sent
           /\ inflight' = inflight
           /\ last'.issued = 0
           /\ UNCHANGED feedVars
      ]_vars

\* the second call came with hasMore true and the trigger condition met,
\* while the request of the first was unanswered
C3_Witness ==
    /\ lmPending
    /\ last.op = "loadMore"
    /\ last.issued = 0
    /\ hasMore
    /\ last.stop >= Len(images) - 1
    /\ \E r \in Pending : r.origin = "loadMore"

\* every render window makes loadMore return without a request
LoadMoreSendsNothing ==
    \A stopIndex \in StopIndexes(images) : LoadMoreReturnsEarly(stopIndex, images)

\* the requests in flight that loadMore sent
LoadMoreRequests == { r \in Pending : r.origin = "loadMore" }

\* C4: isLoadingRef is true in every state in which a feed fetch is
\* unresolved, so loadMore sends no request while an earlier fetch is in
\* flight, and two fetches sent by loadMore are never outstanding together.
C4_FlagCoversEveryFetch ==
    /\ inflight # EmptyBag => isLoadingRef
    /\ inflight # EmptyBag => LoadMoreSendsNothing
    /\ \A r \in LoadMoreRequests :
          CopiesIn(r, inflight) = 1 /\ LoadMoreRequests = {r}

\* C5 as stated: once a fetch has resolved with fewer than PAGE_SIZE records,
\* no call of loadMore sends a request until refresh is called, whatever
\* the render window and whatever fetches complete later.
C5_NoLoadMoreUntilRefresh == exhausted => LoadMoreSendsNothing

\* C5, amended: a fetch that resolves with fewer than PAGE_SIZE records sets
\* hasMore to false; while hasMore is false no call of loadMore sends a
\* request; and hasMore becomes true again only when refresh is called or
\* when a fetch resolves with PAGE_SIZE records.
C5_ShortPageStopsLoadMore ==
    [][ /\ (last'.op = "resolved" /\ last'.raw < PAGE_SIZE) => ~hasMore'
        /\ (~hasMore /\ last'.op = "loadMore")
              => sent' = sent /\ inflight' = inflight /\ last'.issued = 0
        /\ (~hasMore /\ hasMore')
              => \/ RefreshStep
                 \/ last'.op = "resolved" /\ last'.raw = PAGE_SIZE
      ]_vars

\* loadMore was called with the trigger condition met and no fetch marked in
\* flight, after a page shorter than PAGE_SIZE, and sent nothing
C5_Witness ==
    /\ last.op = "loadMore"
    /\ last.issued = 0
    /\ last.stop >= Len(images) - 1
    /\ ~isLoadingRef
    /\ ~hasMore
    /\ exhausted
    /\ images # <<>>

\* C6: when a feed fetch is rejected, at offset 0 or beyond, error becomes a
\* non-empty message, images, the dedup set and hasMore stay what they were,
\* and no request is sent again.
C6_FailureKeepsFeed ==
    [][ last'.op = "rejected"
        => /\ error' # NoError /\ error' # ""
           /\ images' = images
           /\ loadedIdsRef' = loadedIdsRef
           /\ hasMore' = hasMore
           /\ sent' = sent
           /\ BagCardinality(inflight') = BagCardinality(inflight) - 1
           /\ inflight' \sqsubseteq inflight
      ]_vars

\* a fetch at an offset > 0 was rejected while images held records
C6_Witness ==
    /\ last.op = "rejected"
    /\ last.offset > 0
    /\ images # <<>>
    /\ hasMore
    /\ error = FetchErrorMessage

\* the number of entries of a page that are not null
RecordCount(page) == Cardinality({ i \in 1..Len(page) : ~page[i].null })

\* what C7 says of images, for request r answered with `page`
C7_Appended(r, page) ==
    images' = images \o
        FirstNewFrom(IncomingItems(page, r.params.offset), loadedIdsRef, 1)

\* C7 as stated: a fetch at offset > 0 that resolves appends the records of
\* the page whose id is not in the dedup set, each id once, in page order,
\* and sets hasMore to (length of the raw page = PAGE_SIZE).
C7_RawLengthDecidesHasMore ==
    [][ \A r \in Pending : \A page \in Pages :
           (/\ r.params.offset > 0
            /\ AnswerFits(r, page)
            /\ FetchResolves(r, page))
           => /\ C7_Appended(r, page)
              /\ hasMore' = (Len(page) = PAGE_SIZE)
      ]_vars

\* C7, amended: ... and sets hasMore to (number of entries of the page that
\* are not null = PAGE_SIZE), counted before deduplication.
C7_RecordCountDecidesHasMore ==
    [][ \A r \in Pending : \A page \in Pages :
           (/\ r.params.offset > 0
            /\ AnswerFits(r, page)
            /\ FetchResolves(r, page))
           => /\ C7_Appended(r, page)
              /\ hasMore' = (RecordCount(page) = PAGE_SIZE)
      ]_vars

\* a full page of duplicates arrived at offset > 0: nothing admitted, hasMore
\* true
C7_Witness ==
    /\ last.op = "resolved"
    /\ last.offset > 0
    /\ last.before > 0
    /\ last.raw = PAGE_SIZE
    /\ last.added = 0
    /\ Len(images) = last.before
    /\ hasMore

\* C8 as stated: a fetch that resolves with zero records, at any offset and
\* with any prior content, leaves images as it was and sets hasMore to false.
C8_EmptyPageKeepsImages ==
    [][ (last'.op = "resolved" /\ last'.raw = 0)
        => images' = images /\ ~hasMore'
      ]_vars

\* C8, amended: a fetch that resolves with zero records sets hasMore to
\* false; at an offset > 0 it leaves images as it was, at offset 0 it makes
\* images empty.
C8_EmptyPageByOffset ==
    [][ (last'.op = "resolved" /\ last'.raw = 0)
        => /\ ~hasMore'
           /\ last'.offset > 0 => images' = images
           /\ last'.offset = 0 => images' = <<>>
      ]_vars

\* an empty page arrived at offset 0 when images held records
C8_Witness ==
    /\ last.op = "resolved"
    /\ last.raw = 0
    /\ last.offset = 0
    /\ last.before > 0
    /\ images = <<>>
    /\ ~hasMore

\* some character of the term is not a space
NonBlank(term) == \E i \in 1..Len(term) : term[i] # SP

\* q is term without the spaces at its two ends
IsTrimOf(q, term) ==
    /\ q # <<>> /\ Head(q) # SP /\ q[Len(q)] # SP
    /\ \E a, b \in 0..Len(term) :
          /\ a + b <= Len(term)
          /\ SubSeq(term, a + 1, Len(term) - b) = q
          /\ \A i \in (1..a) \cup ((Len(term) - b + 1)..Len(term)) : term[i] = SP

\* C9: refresh(term) sets, before any response, images to empty, the dedup
\* set to empty, hasMore to true, error to null, isLoadingMore to false and
\* loading to true, and sends exactly one request, with offset 0, limit
\* PAGE_SIZE = 60 and, when term is not blank, q the trimmed term.
C9_RefreshResetsAndRequests ==
    [][ \A term \in Terms : CallRefresh(term)
           => /\ images' = <<>> /\ loadedIdsRef' = {}
              /\ hasMore' /\ error' = NoError
              /\ ~isLoadingMore' /\ loading'
              /\ sent' = sent + 1
              /\ \E r \in BagToSet(inflight') :
                    /\ inflight' = Send(inflight, r)
                    /\ r.params.offset = 0
                    /\ r.params.limit = PAGE_SIZE /\ PAGE_SIZE = 60
                    /\ NonBlank(term) => IsTrimOf(r.params.q, term)
                    /\ ~NonBlank(term) => r.params.q = NoQ
      ]_vars

\* refresh was called with a term that has a space to trim, when images held
\* records
C9_Witness ==
    /\ last.op = "refresh"
    /\ last.before > 0
    /\ images = <<>>
    /\ \E r \in Pending : r.origin = "refresh" /\ r.params.q = <<"n">>

\* C10 as stated: after a fetch was rejected, a fetch started later that
\* resolves, with no rejection in between, leaves error null.
C10_SuccessClearsError ==
    [][ (failQuiet /\ last'.op = "resolved") => error' = NoError ]_vars

\* C10, amended: a rejected fetch sets error; a fetch that resolves leaves
\* error as it was; error becomes null only when refresh is called, and
\* every call of refresh makes it null.
C10_OnlyRefreshClearsError ==
    [][ /\ last'.op = "rejected" => error' = FetchErrorMessage
        /\ last'.op = "resolved" => error' = error
        /\ (error # NoError /\ error' = NoError) => RefreshStep
        /\ RefreshStep => error' = NoError
      ]_vars

\* a fetch started after a rejection resolved, and error is still set
C10_Witness ==
    /\ failQuiet
    /\ last.op = "resolved"
    /\ error = FetchErrorMessage

\* the handlers that call performSearch
CommitOps == {"handleSearch", "handleHistoryItemClick"}

\* C11: activeSearchTerm changes only through performSearch, which sets it
\* to the term given, or to searchTerm when none is given; setSearchTerm and
\* clean change searchTerm only: not activeSearchTerm, not the feed, and
\* they send no request.
C11_OnlyCommitWritesCommitted ==
    [][ /\ activeSearchTerm' # activeSearchTerm => last'.op \in CommitOps
        /\ last'.op = "handleSearch" => activeSearchTerm' = searchTerm
        /\ \A term \in Terms :
              HandleHistoryItemClick(term) => activeSearchTerm' = term
        /\ last'.op \in {"setSearchTerm", "clean"}
              => UNCHANGED <<activeSearchTerm, feedVars, inflight, sent>>
        /\ last'.op = "clean" => searchTerm' = <<>>
      ]_vars

\* a history entry with the empty term was committed in place of another
\* committed term, when the feed held records
C11_Witness ==
    /\ last.op = "handleHistoryItemClick"
    /\ last.issued = 1
    /\ last.before > 0
    /\ activeSearchTerm = <<>>
    /\ searchTerm = <<>>

\* C12: every change of activeSearchTerm comes with exactly one call of
\* refresh with the new term, hence one request at offset 0 filtered by it,
\* and loadMore sends a request for a term only after that refresh.
C12_CommitRefreshesOnce ==
    [][ /\ activeSearchTerm' # activeSearchTerm
              => /\ refreshedFor' = activeSearchTerm'
                 /\ images' = <<>> /\ loading'
                 /\ sent' = sent + 1
                 /\ inflight' = Send(inflight,
                        [origin |-> "refresh",
                         params |-> Params(0, activeSearchTerm')])
        /\ (last'.op = "loadMore" /\ last'.issued = 1)
              => /\ refreshedFor = activeSearchTerm
                 /\ inflight' = Send(inflight,
                        [origin |-> "loadMore",
                         params |-> Params(Len(images), activeSearchTerm)])
      ]_vars

\* loadMore sent a request for a term that was committed after the mount
C12_Witness ==
    /\ last.op = "loadMore"
    /\ last.issued = 1
    /\ activeSearchTerm = <<SP, "n">>
    /\ \E r \in Pending : r.origin = "loadMore" /\ r.params.q = <<"n">>

\* what C13 says of when loadMore sends, and of the offset and limit sent
C13_SendsWhenTriggered(stopIndex) ==
    /\ last'.issued = 1
          <=> (hasMore /\ ~isLoadingRef /\ stopIndex >= Len(images) - 1)
    /\ last'.issued = 0 => inflight' = inflight /\ sent' = sent
    /\ last'.issued = 1
          => /\ sent' = sent + 1
             /\ \E r \in BagToSet(inflight') :
                   /\ inflight' = Send(inflight, r)
                   /\ r.params.offset = Len(images)
                   /\ r.params.limit = PAGE_SIZE

\* the q of the request this step sent
SentQ == (CHOOSE r \in BagToSet(inflight') : inflight' = Send(inflight, r)).params.q

\* C13 as stated: loadMore(startIndex, stopIndex, items, term) sends a
\* request if and only if hasMore is true, no fetch is marked in flight and
\* stopIndex >= items.length - 1; the request has offset items.length, limit
\* PAGE_SIZE, and term as its filter.
C13_LoadMoreSendsTerm ==
    [][ \A stopIndex \in StopIndexes(images) : \A term \in LoadMoreTerms :
           CallLoadMore(stopIndex, term)
           => /\ C13_SendsWhenTriggered(stopIndex)
              /\ last'.issued = 1 => SentQ = term
      ]_vars

\* C13, amended: ... and as its filter the term without the spaces at its
\* ends, or no filter when the term is blank.
C13_LoadMoreSendsTrimmedTerm ==
    [][ \A stopIndex \in StopIndexes(images) : \A term \in LoadMoreTerms :
           CallLoadMore(stopIndex, term)
           => /\ C13_SendsWhenTriggered(stopIndex)
              /\ (last'.issued = 1 /\ NonBlank(term)) => IsTrimOf(SentQ, term)
              /\ (last'.issued = 1 /\ ~NonBlank(term)) => SentQ = NoQ
      ]_vars

\* loadMore sent a request at the offset of the records it was given, fewer
\* than the records received so far
C13_Witness ==
    /\ last.op = "loadMore"
    /\ last.issued = 1
    /\ last.stop = Len(images) - 1
    /\ \E r \in Pending : r.origin = "loadMore" /\ r.params.offset = Len(images)
    /\ Len(images) > 0
    /\ Len(images) < PAGE_SIZE
    /\ hasMore

\* s is the beginning of t
IsPrefix(s, t) == Len(s) <= Len(t) /\ SubSeq(t, 1, Len(s)) = s

\* this step handled the response to a request at offset 0
FirstPageStep == last'.op = "resolved" /\ last'.offset = 0

\* C14 as stated: between two calls of refresh every change of images keeps
\* the previous images as its beginning, whatever the order of completions.
C14_AppendOnly ==
    [][ ~RefreshStep => IsPrefix(images, images') ]_vars

\* C14, amended: between two calls of refresh a change of images either
\* keeps the previous images as its beginning (a page fetched at an offset
\* > 0) or replaces images by the records of a page fetched at offset 0,
\* repeated ids removed (the fetch of refresh itself, of the mount effect
\* or of fetchPage(0)).
C14_AppendOrFirstPage ==
    [][ /\ (~RefreshStep /\ ~FirstPageStep) => IsPrefix(images, images')
        /\ FirstPageStep
              => \E page \in Pages :
                    /\ Len(FilterBoolean(page)) = last'.raw
                    /\ images' = FirstNewFrom(IncomingItems(page, 0), {}, 1)
      ]_vars

\* the page of a fetch at offset 0 that refresh did not send replaced more
\* records than it brought
C14_Witness ==
    /\ last.op = "resolved"
    /\ last.offset = 0
    /\ last.origin \in {"mount", "fetchPage"}
    /\ Len(images) > 0
    /\ last.before > Len(images)

\* C15: the viewer holds at most one record: handleClick makes the card's
\* record the selection in place of any other, clean makes the selection
\* empty, both leave the feed and the search state alone, and refresh,
\* loadMore and the completions of fetches leave the selection alone, also
\* when the selected record is no longer in images.
C15_ViewerIsIndependent ==
    [][ /\ \A i \in CardIndexes :
              HandleClick(i)
              => /\ imageData' = images[i]
                 /\ UNCHANGED <<feedVars, searchVars, inflight, sent>>
        /\ last'.op = "cleanImageView"
              => /\ imageData' = NoImageData
                 /\ UNCHANGED <<feedVars, searchVars, inflight, sent>>
        /\ last'.op \notin {"handleClick", "cleanImageView"}
              => imageData' = imageData
      ]_vars

\* a fetch resolved and left images without the record the viewer shows
C15_Witness ==
    /\ last.op = "resolved"
    /\ imageData # NoImageData
    /\ images # <<>>
    /\ imageData.id \notin IdsOf(images)

\* C19: in every reachable state the dedup set is exactly the set of the ids
\* of the records in images: refresh and a resolved fetch at offset 0 reset
\* both, a resolved fetch at an offset > 0 grows both, a rejected fetch
\* changes neither.
C19_DedupSetIsIdsOfImages ==
    /\ loadedIdsRef = IdsOf(images)
    /\ Cardinality(loadedIdsRef) = Len(images)

\* a page arrived at offset 0 when images held other records, and both were
\* reset to what the page brought
C19_Witness ==
    /\ last.op = "resolved"
    /\ last.offset = 0
    /\ last.before > 0
    /\ last.added > 0
    /\ last.added < last.before
    /\ Cardinality(loadedIdsRef) = last.added

\* isLoadingRef, isLoadingMore and loading are all false
FlagsDown == ~isLoadingRef /\ ~isLoadingMore /\ ~loading

\* C20: after every completion of a fetch, resolved or rejected, isLoadingRef,
\* isLoadingMore and loading are all false; hence, when every request is
\* answered in the end, a request in flight leads to all three being false.
C20_CompletionClearsFlags ==
    /\ [][ last'.op \in {"resolved", "rejected"} => FlagsDown' ]_vars
    /\ (inflight # EmptyBag ~> FlagsDown)

\* a fetch was rejected and left the three flags false while another request
\* was still in flight
C20_Witness ==
    /\ last.op = "rejected"
    /\ inflight # EmptyBag
    /\ FlagsDown

\* the positions of seq whose entry has not the id
KeptPositions(seq, id) == { i \in 1..Len(seq) : seq[i].id # id }

\* the k-th of the positions, in increasing order
KthPosition(positions, k) ==
    CHOOSE i \in positions : Cardinality({ j \in positions : j < i }) = k - 1

\* `after` is `before` less the entries with the id, the others in their
\* order
RemovedById(before, after, id) ==
    /\ Len(after) = Cardinality(KeptPositions(before, id))
    /\ \A k \in 1..Len(after) :
          after[k] = before[KthPosition(KeptPositions(before, id), k)]

\* C16: when the server answers a delete of a history entry with success,
\* exactly the entries with that id leave the list, the others keep their
\* order, and the total goes down by one; when it answers without success, or
\* the request fails, the list and the total stay as they were.
C16_DeleteUpdatesListOnSuccess ==
    [][ /\ (last'.op = "deleteResolved" /\ last'.success) =>
            /\ RemovedById(searchHistory, searchHistory', last'.request.id)
            /\ total' = total - 1
        /\ \/ last'.op = "deleteResolved" /\ ~last'.success
           \/ last'.op = "deleteRejected"
           => UNCHANGED <<searchHistory, total>> ]_vars

\* a delete succeeded on a list that held the entry twice, and another entry
\* is left
C16_Witness ==
    /\ last.op = "deleteResolved"
    /\ last.success
    /\ Len(last.before) = Len(searchHistory) + 2
    /\ Len(searchHistory) > 0

\* the steps in which a response arrives
SettleOps ==
    {"feedSettled", "platformValidateResolved", "platformValidateRejected",
     "meSettled", "authValidateResolved", "authValidateRejected",
     "submitResolved", "submitRejected"}

\* the steps that navigate
NavigateOps ==
    {"userNavigates", "handleLogout", "timerFires",
     "platformValidateResolved", "platformValidateRejected",
     "authValidateResolved"}

\* C17: a request issued while a token is stored (a token the code counts
\* as one: isAuthenticated()) carries `Bearer <that token>`; a response of
\* status 401 leaves no token stored, rejects to the caller, and the step
\* sends no request and, but for the Platform's own catch, changes no route.
C17_InterceptorsCarryAndEvict ==
    [][ /\ \A w \in wire' :
             (w.n > authSent /\ Truthy(authToken'))
                => w.authorization = Bearer(authToken')
        /\ (last'.op \in SettleOps /\ last'.status = 401) =>
              /\ authToken' = NoToken
              /\ last'.delivered = "rejected"
              /\ authSent' = authSent
              /\ last'.op # "platformValidateRejected" => route' = route
      ]_vars

\* a request sent with a stored token and no default header carried the
\* token, and was answered 401
C17_Witness ==
    /\ last.op = "meSettled"
    /\ last.status = 401
    /\ last.request.authorization = Bearer("t1")
    /\ defaultAuthorization = NoHeader
    /\ authToken = NoToken

\* C18: the Platform shows its content only when validation returned valid
\* to it; mounted with no token it goes to the login route and sends nothing;
\* when validation returns invalid or rejects, no token is left stored, the
\* route is the login route and nothing is sent; whenever validateUserAuth
\* finishes on the mounted Platform, isValidating is false, and a Platform
\* that validates does not validate for ever.
C18_PlatformGatedByValidation ==
    /\ [](PlatformShowsFeed => validReturned)
    /\ [][ /\ ( /\ last'.op \in NavigateOps
                /\ last'.entered = PlatformRoute
                /\ ~Truthy(authToken') )
              => (route' = LoginRoute /\ authSent' = authSent)
           /\ ( \/ last'.op = "platformValidateResolved" /\ ~last'.ok
                \/ last'.op = "platformValidateRejected" )
              => /\ authToken' = NoToken
                 /\ route' = LoginRoute
                 /\ authSent' = authSent
           /\ ( /\ \/ last'.op = "platformValidateResolved" /\ ~last'.ok
                   \/ last'.op \in {"platformValidateRejected", "meSettled"}
                /\ last'.request.live )
              => ~isValidating'
         ]_vars
    /\ (route = PlatformRoute /\ isValidating)
          ~> ~(route = PlatformRoute /\ isValidating)

\* the Platform shows its content after validation returned valid and
\* getCurrentUser failed
C18_Witness ==
    /\ PlatformShowsFeed
    /\ last.op = "meSettled"
    /\ last.status = 500

\* C21: the search-history list never holds two entries with the same id,
\* for a server that returns each entry at one position of its ordering.
C21_NoDuplicateHistoryIds ==
    \A i, j \in 1..Len(searchHistory) :
       i # j => searchHistory[i].id # searchHistory[j].id

\* this step is the failure of a fetch of the history
HistoryFetchFails ==
    \/ last'.op = "historyRejected"
    \/ last'.op = "historyResolved" /\ ~last'.success

\* C22 as stated, for a fetch that fails before anything else happens: a
\* fetch of the history that fails, fresh or load-more, leaves the list, the
\* total, the offset and hasMore as they were before it was started.
C22_FailedFetchRestores ==
    [][ ( /\ last.op \in {"handleHistoryHover", "observerLoadMore"}
          /\ HistoryFetchFails
          /\ last'.request = last.request )
        => /\ searchHistory' = last.before
           /\ total' = last.totalBefore
           /\ historyOffset' = last.offsetBefore
           /\ historyHasMore' = last.hasMoreBefore ]_vars

\* C22, amended: the failure of a fetch of the history changes neither the
\* list nor the total, the offset or hasMore; a load-more fetch changes none
\* of them when it starts, a fresh fetch empties the list, sets the offset to
\* 0 and hasMore to true when it starts and leaves the total.
C22_FailureChangesNothing ==
    [][ /\ HistoryFetchFails
           => UNCHANGED <<searchHistory, total, historyOffset, historyHasMore>>
        /\ last'.op = "observerLoadMore"
           => UNCHANGED <<searchHistory, total, historyOffset, historyHasMore>>
        /\ last'.op = "handleHistoryHover"
           => /\ searchHistory' = <<>>
              /\ historyOffset' = 0
              /\ historyHasMore'
              /\ UNCHANGED total ]_vars

\* a fresh fetch failed with nothing else in flight, and the list is empty
\* with a total that tells of entries
C22_Witness ==
    /\ last.op = "historyRejected"
    /\ ~last.request.loadMore
    /\ historyInflight = EmptyBag
    /\ searchHistory = <<>>
    /\ total > 0

\* the positions of the page that hold a record
KeptAt(page) == { i \in 1..Len(page) : ~page[i].null }

\* the index of the record at position i once the null entries are dropped,
\* counted from 0
IndexAfterDrop(page, i) == Cardinality({ j \in KeptAt(page) : j < i })

\* the id and the image URL expected of the record at position i
RepairedId(page, i, offset) ==
    IF page[i].id = NoId THEN TmpId(offset, IndexAfterDrop(page, i))
    ELSE page[i].id

RepairedUrl(page, i) ==
    IF page[i].image_url = Missing THEN "" ELSE page[i].image_url

\* C23: a response with null entries or records without id or image URL is
\* taken, not rejected: the null entries are dropped, a record without id
\* gets tmp-<offset>-<index after the drop>, a missing URL becomes '', the
\* synthetic ids of one page differ pairwise, and such a record is in items
\* afterwards unless its id was in the dedup set.
C23_RepairsPartialRecords ==
    [][ \A r \in Pending : \A page \in ShortPages :
          FetchResolves(r, page) =>
             LET offset == r.params.offset
                 loaded == IF offset = 0 THEN {} ELSE loadedIdsRef
             IN  /\ error' = error
                 /\ last'.raw = Cardinality(KeptAt(page))
                 /\ \A k \in 1..Len(images') :
                       images'[k].id # NoId /\ images'[k].image_url # Missing
                 /\ \A i \in KeptAt(page) :
                       /\ RepairedId(page, i, offset) \in loadedIdsRef'
                       /\ page[i].id = NoId =>
                            /\ \A j \in KeptAt(page) \ {i} :
                                  page[j].id = NoId =>
                                     RepairedId(page, j, offset)
                                        # RepairedId(page, i, offset)
                            /\ RepairedId(page, i, offset) \notin loaded =>
                                  \E k \in 1..Len(images') :
                                     images'[k] =
                                        [id |-> RepairedId(page, i, offset),
                                         image_url |-> RepairedUrl(page, i)]
      ]_vars

\* a page fetched at an offset above 0 brought two records without id and
\* without image URL, and both are in items
C23_Witness ==
    /\ last.op = "resolved"
    /\ last.offset > 0
    /\ last.added = 2
    /\ \A i \in {0, 1} :
          \E k \in 1..Len(images) :
             images[k] = [id |-> TmpId(last.offset, i), image_url |-> ""]


(* --------------------------- C24: loading phases ---------------------- *)

\* C24: in every state reached through the mount effect, refresh, loadMore
\* and the completion of fetches, loading (the initial-loading flag) and
\* isLoadingMore are not both true.
C24_LoadingPhasesExclusive ==
    ~(loading /\ isLoadingMore)

\* refresh was called while a fetch started by loadMore is unanswered
C24_Witness ==
    /\ last.op \in {"handleSearch", "handleHistoryItemClick"}
    /\ last.issued = 1
    /\ loading
    /\ \E r \in Pending : r.origin = "loadMore" /\ r.params.offset > 0


(* ----------------------- C25: whose records are shown ----------------- *)

\* C25: when a response puts records into images and leaves no fetch in
\* flight, its request carried the filter of the committed term
\* (activeSearchTerm): a response to a request sent for an earlier term, or
\* before the latest refresh, is not what the feed ends up showing.
C25_ItemsFromCommittedTerm ==
    [][\A r \in Pending : \A page \in AppPages :
          ( /\ FetchResolves(r, page)
            /\ last'.added > 0
            /\ inflight' = EmptyBag )
          => r.params = Params(r.params.offset, activeSearchTerm)]_vars


(* ------------------- C26: loading during a refresh -------------------- *)

\* C26: from the call of refresh until the page-0 request that this refresh
\* sent is answered, loading is true: as long as a request sent by refresh
\* is unanswered, the answer to another request has not cleared loading.
C26_LoadingUntilRefreshCompletes ==
    (\E r \in Pending : r.origin = "refresh") => loading


(* -------------------- C27: the credential of a request ---------------- *)

\* C27: a request that is sent carries an Authorization header only if a
\* token is stored when it is sent, and the header is then the Bearer header
\* of that token: once the stored token has been evicted, by a 401 response
\* or by removeAuthToken, no later request carries it.
C27_NoEvictedCredential ==
    [][\A w \in wire' :
          (w.n > authSent /\ w.authorization # NoHeader)
          => /\ authToken' # NoToken
             /\ w.authorization = Bearer(authToken')]_vars


(* ---------------------- C28: the requests of a mount ------------------ *)

\* C28: mounting the grid, the committed term unchanged, sends exactly one
\* request for page 0 of the sources: the mount effect of the hook and the
\* refresh of the Grid's effect do not each send one.
C28_MountSendsOneRequest ==
    [][Mount =>
          /\ sent' = sent + 1
          /\ BagCardinality(inflight') = BagCardinality(inflight) + 1]_vars


(* ------------------- C29: committing the same term -------------------- *)

\* C29: committing a term equal to the committed one (handleSearch with
\* the draft equal to activeSearchTerm, or a click on that term in the
\* history list) leaves activeSearchTerm and the whole state of the feed
\* unchanged, runs no refresh and sends no request.
C29_SameTermChangesNothing ==
    [][( \/ (HandleSearch /\ searchTerm = activeSearchTerm)
         \/ HandleHistoryItemClick(activeSearchTerm) )
       => UNCHANGED <<activeSearchTerm, feedVars, inflight, sent,
                      refreshedFor>>]_vars

\* the committed, non-empty term was committed again over a loaded feed
C29_Witness ==
    /\ last.op = "handleSearch"
    /\ last.issued = 0
    /\ searchTerm = activeSearchTerm
    /\ activeSearchTerm # <<>>
    /\ images # <<>>
    /\ inflight = EmptyBag


(* ------------------- C30: paging the search history ------------------- *)

\* C30: with pages of 30, a fresh fetch of the history asks for offset 0 and
\* a load-more for the current offset o; a successful fresh response
\* replaces the list by its page and sets the offset to 30, a successful
\* load-more response appends its page and sets the offset to o + 30; after
\* either, hasMore is true exactly when o plus the length of the page (o = 0
\* for a fresh fetch) is less than the total of the response, and the
\* observer starts a load-more only while hasMore is true.
C30_HistoryPaging ==
    /\ [][HandleHistoryHover =>
             CopiesIn([kind |-> "getHistory", loadMore |-> FALSE,
                       offset |-> 0, limit |-> 30, id |-> NoEntryId],
                      historyInflight')
                = CopiesIn([kind |-> "getHistory", loadMore |-> FALSE,
                            offset |-> 0, limit |-> 30, id |-> NoEntryId],
                           historyInflight) + 1]_vars
    /\ [][ObserverLoadMore =>
             /\ historyHasMore
             /\ CopiesIn([kind |-> "getHistory", loadMore |-> TRUE,
                          offset |-> historyOffset, limit |-> 30,
                          id |-> NoEntryId], historyInflight')
                   = CopiesIn([kind |-> "getHistory", loadMore |-> TRUE,
                               offset |-> historyOffset, limit |-> 30,
                               id |-> NoEntryId], historyInflight) + 1]_vars
    /\ [][\A r \in HistoryPending : \A resp \in PagingResponses :
             (HistoryResolves(r, resp) /\ resp.success)
             => IF r.loadMore
                  THEN /\ searchHistory' = searchHistory \o resp.data
                       /\ historyOffset' = r.offset + 30
                       /\ historyHasMore'
                             = (r.offset + Len(resp.data) < resp.total)
                  ELSE /\ r.offset = 0
                       /\ searchHistory' = resp.data
                       /\ historyOffset' = 30
                       /\ historyHasMore' = (Len(resp.data) < resp.total)]_vars

\* a load-more started at offset 30 was answered with a page that leaves
\* more to load
C30_Witness ==
    /\ last.op = "historyResolved"
    /\ last.success
    /\ last.request.loadMore
    /\ last.request.offset = 30
    /\ historyOffset = 60
    /\ historyHasMore
    /\ Len(searchHistory) > Len(last.before)
    /\ historyInflight = EmptyBag

====
